---- MODULE Spec2Model ----
\* Model of SubsidyService (src/res/subsidy/newsubsidy.service.ts): the
\* full-refresh ingestion run processAllData with its four stages, the
\* batch fan-out of Wave 1, the per-record loops of Waves 2/3 and the
\* retrying condition fetch (Spec); the read path searchSubsidiesByVector
\* (SearchSpec); and extractSupportConditions over arbitrary payloads
\* (ExtractSpec).
EXTENDS Integers, Sequences, FiniteSets, TLC

\* ---------------------------------------------------------------- bounds
\* Largest source catalogue.
MaxSource == 4
\* The page size (500 in the source) and the batch size (10 in the source)
\* are scaled down so that several pages and several batches per page occur
\* within MaxSource records; every formula below is stated in terms of the
\* names, never of the scaled values.
perPage == 3
BATCH_SIZE == 2
\* The candidate pool of $vectorSearch (numCandidates: 100, limit: 100 in the
\* source), scaled down so that a collection of MaxSource documents exceeds it.
numCandidates == 3
\* Largest page number and page length asked of searchSubsidiesByVector.
MaxPage == 3
MaxLimit == 3
\* Most keys of a supportConditions payload handed to extractSupportConditions.
MaxKeys == 3

\* ------------------------------------------------------ program constants
DELAY_MS == 1000
MAX_RETRIES == 3
TRANSIENT_CODE == 0 - 10
\* any application code other than the transient one
OTHER_CODE == 0 - 1

Null == "null"
NoVec == <<>>

\* ------------------------------------------------------------ source data
\* One raw record of the serviceDetail endpoint, keyed by its position.
SrcRec(n) ==
    [serviceId |-> n, serviceName |-> <<"name", n>>, supportDetails |-> <<"details", n>>]

\* The supportConditions payload of a service: keys are character sequences.
Payload(id) ==
    IF id % 2 = 1
    THEN << [key |-> <<"J", "A", "1">>, val |-> "x"],
            [key |-> <<"J", "A", "2">>, val |-> Null],
            [key |-> <<"J", "B", "1">>, val |-> "y"] >>
    ELSE << [key |-> <<"J", "B", "2">>, val |-> "z"],
            [key |-> <<"J", "A", "3">>, val |-> "w"] >>

\* Replies of the text-generation endpoint, as character sequences.
SummaryReply == <<" ", "s", "m", " ">>
KeywordReply == <<"a", ",", " ", "b">>

\* ------------------------------------------------------------ pure helpers
Min(a, b) == IF a < b THEN a ELSE b

\* Math.ceil(totalCount / perPage) for a non-negative count.
PageCountFloor(totalCount) == totalCount \div perPage
PageCountPlusOne(totalCount) == (totalCount \div perPage) + 1
PageCount(totalCount) ==
    IF totalCount % perPage = 0 THEN totalCount \div perPage
    ELSE (totalCount \div perPage) + 1

\* data of fetchSubsidyPage(page, pp) over a stably ordered source.
PageData(src, p, pp) ==
    LET lo == (p - 1) * pp + 1
        hi == Min(p * pp, Len(src))
    IN  IF lo > hi THEN <<>> ELSE SubSeq(src, lo, hi)

\* subsidies.slice(i, i + BATCH_SIZE), with a 0-based offset i.
SliceWide(s, i, j) == IF i >= Len(s) THEN <<>> ELSE SubSeq(s, i + 1, Min(j + 1, Len(s)))
Slice(s, i, j) == IF i >= Len(s) THEN <<>> ELSE SubSeq(s, i + 1, Min(j, Len(s)))

Range(s) == {s[k] : k \in 1..Len(s)}

\* key.startsWith("JA")
StartsWithJ(key) == Len(key) >= 1 /\ key[1] = "J"
StartsWithJA(key) == Len(key) >= 2 /\ key[1] = "J" /\ key[2] = "A"

RECURSIVE FilterJA(_)
FilterJA(p) ==
    IF p = <<>> THEN <<>>
    ELSE LET rest == FilterJA(Tail(p))
         IN  IF StartsWithJA(Head(p).key) /\ Head(p).val # Null
             THEN <<Head(p).val>> \o rest
             ELSE rest

\* The argument is a value of fetchSupportCondition: kind "null" for null
\* or undefined, kind "value" with the payload otherwise.
extractSupportConditions(supportCondition) ==
    IF supportCondition.kind = "null" THEN <<>>
    ELSE FilterJA(supportCondition.val)

\* String.prototype.trim on a character sequence.
RECURSIVE TrimLeft(_)
TrimLeft(s) == IF s # <<>> /\ Head(s) = " " THEN TrimLeft(Tail(s)) ELSE s
RECURSIVE TrimRight(_)
TrimRight(s) ==
    IF s # <<>> /\ s[Len(s)] = " " THEN TrimRight(SubSeq(s, 1, Len(s) - 1)) ELSE s
Trim(s) == TrimRight(TrimLeft(s))

\* s.split(",").map(k => k.trim())
RECURSIVE SplitComma(_, _)
SplitComma(s, cur) ==
    IF s = <<>> THEN <<cur>>
    ELSE IF Head(s) = "," THEN <<cur>> \o SplitComma(Tail(s), <<>>)
    ELSE SplitComma(Tail(s), Append(cur, Head(s)))
RECURSIVE MapTrim(_)
MapTrim(ws) == IF ws = <<>> THEN <<>> ELSE <<Trim(Head(ws))>> \o MapTrim(Tail(ws))

\* getEmbedding(text) on success: a populated vector for the text.
Embedding(text) == <<"vec", text>>

\* The document built by saveBasicSubsidyInfo; fresh tells whether the
\* current run of processAllData inserted it.
NewDoc(rec, vec, f) ==
    [serviceId |-> rec.serviceId, serviceName |-> rec.serviceName,
     supportDetails |-> rec.supportDetails, supportCondition |-> <<>>,
     vectorEmbedding |-> vec, keywords |-> <<>>, summary |-> <<>>, fresh |-> f]

\* Model.save() of a new document adds it to the collection. The order in
\* which find({}) lists the collection is the store's own; it is taken to be
\* that of serviceId, which no operation of the service reads.
InsertDoc(st, d) ==
    LET p == Cardinality({k \in 1..Len(st) : st[k].serviceId <= d.serviceId})
    IN  SubSeq(st, 1, p) \o <<d>> \o SubSeq(st, p + 1, Len(st))

\* fetchSupportCondition: what it returns or throws for a reply of the API.
Replies == {"data", "emptyArr", "noData", "err10", "errOther"}
fetchSupportCondition(reply, id) ==
    CASE reply = "data" -> [kind |-> "value", val |-> Payload(id)]
      [] reply = "emptyArr" -> [kind |-> "null", val |-> Null]
      [] reply = "noData" -> [kind |-> "null", val |-> Null]
      [] reply = "err10" -> [kind |-> "throw", val |-> TRANSIENT_CODE]
      [] OTHER -> [kind |-> "throw", val |-> OTHER_CODE]

\* The retry test of fetchSupportConditionWithRetry's catch block.
CanRetryOneLess(rc, code) == rc < MAX_RETRIES - 1 /\ code = TRANSIENT_CODE
CanRetryAny(rc, code) == rc < MAX_RETRIES
CanRetry(rc, code) == rc < MAX_RETRIES /\ code = TRANSIENT_CODE

\* The backoff before retry number rc + 1.
BackoffExponential(rc) == DELAY_MS * (2 ^ rc)
Backoff(rc) == DELAY_MS * (rc + 1)

\* ------------------------------------------------------------------ state
VARIABLES
    source,        \* the catalogue behind the serviceDetail endpoint
    store,         \* the documents of SubsidyModel, as find({}) lists them
    pc,            \* the await at which processAllData is suspended
    tasks,         \* saveBasicSubsidyInfo calls dispatched by batch.map
    totalCount, page, subsidies, i,          \* locals of fetchAndStoreBasicInfo
    loaded, idx,                             \* find({}) result and loop position
    retryCount, result,                      \* fetchSupportConditionWithRetry
    summary, keywords,                       \* locals of updateAllSummaries
    stageLog,      \* history: stages entered in this run
    lateInserts,   \* history: serviceIds inserted after the run had aborted
    pagesFetched,  \* history: pages requested with perPage in this run
    submitted,     \* history: serviceIds handed to saveBasicSubsidyInfo
    abortCause,    \* history: the call whose error processAllData rethrew
    outcome,       \* history: per loaded record, how the current pass ended
    errs, waits,   \* history: attempts and backoffs of the current retry call
    prevCompleted, snap,  \* history used to compare successive runs
    scores,        \* vectorSearchScore of each stored document for the query
    searchOut,     \* what the last call of searchSubsidiesByVector settled with
    payloadIn,     \* the argument of a call of extractSupportConditions
    extracted      \* the value that call returned

w1vars == <<totalCount, page, subsidies, i>>
w23vars == <<loaded, idx, retryCount, result, summary, keywords>>
histvars == <<pagesFetched, submitted, abortCause, outcome, errs, waits,
              prevCompleted, snap>>
searchvars == <<scores, searchOut>>
extractvars == <<payloadIn, extracted>>
vars == <<source, store, pc, tasks, w1vars, w23vars, stageLog, lateInserts,
          histvars, searchvars, extractvars>>

\* The argument of extractSupportConditions as a value of fetchSupportCondition,
\* and the state of a call not made yet.
NoPayload == [kind |-> "null", val |-> Null]
NotCalled == [done |-> FALSE, val |-> <<>>]

StageOf(p) ==
    CASE p = "clear" -> "Clear"
      [] p \in {"probe", "pageFetch", "batchRun", "batchDelay"} -> "FetchBasics"
      [] p \in {"condLoad", "condFetch", "condBackoff", "condSave", "condDelay",
                "condCaught"} -> "UpdateConditions"
      [] p \in {"sumLoad", "sumSummarize", "sumKeywords", "sumSave", "sumDelay",
                "sumCaught"} -> "UpdateSummaries"
      [] OTHER -> "none"

StageOrder == <<"Clear", "FetchBasics", "UpdateConditions", "UpdateSummaries">>

InFlight(t) == t.st \in {"embedding", "saving"}

\* The (serviceId, basic fields) of the stored documents, with multiplicity.
BasicOf(d) == <<d.serviceId, d.serviceName, d.supportDetails>>
BasicBag(st) ==
    [b \in {BasicOf(st[k]) : k \in 1..Len(st)} |->
        Cardinality({k \in 1..Len(st) : BasicOf(st[k]) = b})]

\* A document left in the collection by an earlier life of the service.
StaleDoc ==
    [NewDoc(SrcRec(1), Embedding(SrcRec(1).serviceName), FALSE)
        EXCEPT !.supportCondition = <<"old">>, !.summary = <<"o">>]

Init ==
    /\ \E n \in 0..MaxSource : source = [k \in 1..n |-> SrcRec(k)]
    /\ store \in {<<>>, <<StaleDoc>>}
    /\ pc = "idle"
    /\ tasks = {}
    /\ totalCount = 0 /\ page = 0 /\ subsidies = <<>> /\ i = 0
    /\ loaded = <<>> /\ idx = 0 /\ retryCount = 0 /\ result = Null
    /\ summary = <<>> /\ keywords = <<>>
    /\ stageLog = <<>> /\ lateInserts = {}
    /\ pagesFetched = <<>> /\ submitted = <<>> /\ abortCause = "none"
    /\ outcome = <<>> /\ errs = <<>> /\ waits = <<>>
    /\ prevCompleted = FALSE /\ snap = <<>>
    /\ scores = <<>> /\ searchOut = [kind |-> "none"]
    /\ payloadIn = NoPayload /\ extracted = NotCalled

\* ------------------------------------------------------- processAllData
\* A call of processAllData; a later call starts once the earlier has ended
\* and the saveBasicSubsidyInfo calls it dispatched have settled.
StartRun ==
    /\ pc \in {"idle", "completed", "aborted"}
    /\ \A t \in tasks : ~InFlight(t)
    /\ pc' = "clear"
    /\ store' = [k \in 1..Len(store) |-> [store[k] EXCEPT !.fresh = FALSE]]
    /\ tasks' = {}
    /\ totalCount' = 0 /\ page' = 0 /\ subsidies' = <<>> /\ i' = 0
    /\ loaded' = <<>> /\ idx' = 0 /\ retryCount' = 0 /\ result' = Null
    /\ summary' = <<>> /\ keywords' = <<>>
    /\ pagesFetched' = <<>> /\ submitted' = <<>> /\ abortCause' = "none"
    /\ outcome' = <<>> /\ errs' = <<>> /\ waits' = <<>>
    /\ prevCompleted' = (pc = "completed")
    /\ snap' = IF pc = "completed" THEN BasicBag(store) ELSE <<>>
    /\ UNCHANGED source

\* The catch of processAllData: log and rethrow. The comparison with the
\* run before ends with the run.
Abort(cause) ==
    /\ pc' = "aborted"
    /\ abortCause' = cause
    /\ prevCompleted' = FALSE
    /\ snap' = <<>>

\* ------------------------------------------------------------ clearAllData
ClearOkKeep ==
    /\ pc = "clear"
    /\ pc' = "probe"
    /\ UNCHANGED <<source, store, tasks, w1vars, w23vars, histvars>>

ClearOk ==
    /\ pc = "clear"
    /\ store' = <<>>
    /\ pc' = "probe"
    /\ UNCHANGED <<source, tasks, w1vars, w23vars, histvars>>

ClearFail ==
    /\ pc = "clear"
    /\ Abort("clear")
    /\ UNCHANGED <<source, store, tasks, w1vars, w23vars, pagesFetched,
                   submitted, outcome, errs, waits>>

\* ------------------------------------------------ fetchAndStoreBasicInfo
\* batch.map(async subsidy => saveBasicSubsidyInfo(subsidy)): every call of
\* the batch is started, each awaiting its embedding.
Dispatched(batch) ==
    {[rec |-> batch[k], st |-> "embedding", vec |-> NoVec] :
        k \in 1..Len(batch)}
Ids(batch) == [k \in 1..Len(batch) |-> batch[k].serviceId]

\* The probe fetchSubsidyPage(1, 1) returns; the page loop tests page 1.
ProbeOk ==
    /\ pc = "probe"
    /\ totalCount' = Len(source)
    /\ page' = 1
    /\ pc' = IF 1 <= PageCount(totalCount') THEN "pageFetch" ELSE "condLoad"
    /\ UNCHANGED <<source, store, tasks, subsidies, i, w23vars, histvars>>

ProbeFail ==
    /\ pc = "probe"
    /\ Abort("probe")
    /\ UNCHANGED <<source, store, tasks, w1vars, w23vars, pagesFetched,
                   submitted, outcome, errs, waits>>

\* fetchSubsidyPage(page, perPage) returns; the first batch is dispatched.
PageOk ==
    /\ pc = "pageFetch"
    /\ subsidies' = PageData(source, page, perPage)
    /\ pagesFetched' = Append(pagesFetched, page)
    /\ i' = 0
    /\ LET batch == Slice(subsidies', 0, BATCH_SIZE)
       IN  IF batch # <<>>
           THEN /\ tasks' = tasks \cup Dispatched(batch)
                /\ submitted' = submitted \o Ids(batch)
                /\ pc' = "batchRun"
                /\ page' = page
           ELSE /\ tasks' = tasks
                /\ submitted' = submitted
                /\ page' = page + 1
                /\ pc' = IF page' <= PageCount(totalCount) THEN "pageFetch"
                         ELSE "condLoad"
    /\ UNCHANGED <<source, store, totalCount, w23vars, abortCause, outcome,
                   errs, waits, prevCompleted, snap>>

PageFail ==
    /\ pc = "pageFetch"
    /\ Abort("page")
    /\ UNCHANGED <<source, store, tasks, w1vars, w23vars, pagesFetched,
                   submitted, outcome, errs, waits>>

\* Promise.all over the batch resolves when every call has.
BatchSettledAny(ts) == \E t \in ts : t.st = "saved"
BatchSettled(ts) == \A t \in ts : t.st = "saved"

\* saveBasicSubsidyInfo, first await: the embedding arrives.
ItemEmbedOk(t) ==
    /\ t \in tasks /\ t.st = "embedding"
    /\ tasks' = (tasks \ {t}) \cup
                {[t EXCEPT !.st = "saving", !.vec = Embedding(t.rec.serviceName)]}
    /\ UNCHANGED <<source, store, pc, w1vars, w23vars, histvars>>

\* A call of the batch rejects: Promise.all rejects at once, and the catch
\* blocks of fetchAndStoreBasicInfo and processAllData rethrow. The other
\* calls of the batch are left running.
ItemRejectsCancel(t, st) ==
    /\ tasks' = {u \in tasks \ {t} : ~InFlight(u)} \cup {[t EXCEPT !.st = st]}
    /\ IF pc = "batchRun"
       THEN Abort("item")
       ELSE UNCHANGED <<pc, abortCause, prevCompleted, snap>>
    /\ UNCHANGED <<source, store, w1vars, w23vars, pagesFetched, submitted,
                   outcome, errs, waits>>
ItemRejects(t, st) ==
    /\ tasks' = (tasks \ {t}) \cup {[t EXCEPT !.st = st]}
    /\ IF pc = "batchRun"
       THEN Abort("item")
       ELSE UNCHANGED <<pc, abortCause, prevCompleted, snap>>
    /\ UNCHANGED <<source, store, w1vars, w23vars, pagesFetched, submitted,
                   outcome, errs, waits>>

\* getEmbedding throws; the catch of saveBasicSubsidyInfo rethrows.
ItemEmbedFailStored(t) ==
    /\ t \in tasks /\ t.st = "embedding"
    /\ tasks' = (tasks \ {t}) \cup {[t EXCEPT !.st = "saving"]}
    /\ UNCHANGED <<source, store, pc, w1vars, w23vars, histvars>>
ItemEmbedFailSwallowed(t) ==
    /\ t \in tasks /\ t.st = "embedding"
    /\ tasks' = (tasks \ {t}) \cup {[t EXCEPT !.st = "embedFailed"]}
    /\ UNCHANGED <<source, store, pc, w1vars, w23vars, histvars>>
ItemEmbedFail(t) ==
    /\ t \in tasks /\ t.st = "embedding"
    /\ ItemRejects(t, "embedFailed")

\* saveBasicSubsidyInfo, second await: subsidyDoc.save() inserts the document.
ItemSaveOk(t) ==
    /\ t \in tasks /\ t.st = "saving"
    /\ store' = InsertDoc(store, NewDoc(t.rec, t.vec, TRUE))
    /\ LET ts == (tasks \ {t}) \cup {[t EXCEPT !.st = "saved"]}
       IN  IF pc = "batchRun" /\ BatchSettled(ts)
           THEN /\ pc' = "batchDelay"
                /\ tasks' = {u \in ts : InFlight(u)}
           ELSE /\ pc' = pc
                /\ tasks' = ts
    /\ UNCHANGED <<source, w1vars, w23vars, histvars>>

ItemSaveFail(t) ==
    /\ t \in tasks /\ t.st = "saving"
    /\ ItemRejects(t, "saveFailed")

\* delay(DELAY_MS) after a batch ends: the next batch, the next page, or the
\* end of the page loop, where updateAllSupportConditions issues find({}).
BatchDelayDone ==
    /\ pc = "batchDelay"
    /\ i' = i + BATCH_SIZE
    /\ LET batch == Slice(subsidies, i', i' + BATCH_SIZE)
       IN  IF batch # <<>>
           THEN /\ tasks' = tasks \cup Dispatched(batch)
                /\ submitted' = submitted \o Ids(batch)
                /\ pc' = "batchRun"
                /\ page' = page
           ELSE /\ tasks' = tasks
                /\ submitted' = submitted
                /\ page' = page + 1
                /\ pc' = IF page' <= PageCount(totalCount) THEN "pageFetch"
                         ELSE "condLoad"
    /\ UNCHANGED <<source, store, totalCount, subsidies, w23vars,
                   pagesFetched, abortCause, outcome, errs, waits, prevCompleted, snap>>

\* ------------------------------------------- updateAllSupportConditions
Pending(n) == [k \in 1..n |-> "pending"]
Mark(o, k, v) == [o EXCEPT ![k] = v]

\* SubsidyModel.find({}) returns; the loop calls
\* fetchSupportConditionWithRetry(serviceId) for the first document.
CondLoadOk ==
    /\ pc = "condLoad"
    /\ loaded' = store
    /\ outcome' = Pending(Len(store))
    /\ IF Len(store) = 0
       THEN pc' = "sumLoad" /\ idx' = 0
       ELSE pc' = "condFetch" /\ idx' = 1
    /\ retryCount' = 0 /\ result' = Null /\ errs' = <<>> /\ waits' = <<>>
    /\ UNCHANGED <<source, store, tasks, w1vars, summary, keywords,
                   pagesFetched, submitted, abortCause, prevCompleted, snap>>

\* find({}) throws: the outer catch rethrows, and so does processAllData.
CondLoadFail ==
    /\ pc = "condLoad"
    /\ Abort("find")
    /\ UNCHANGED <<source, store, tasks, w1vars, w23vars, pagesFetched,
                   submitted, outcome, errs, waits>>

LogOf(r) ==
    CASE r.kind = "value" -> "ok"
      [] r.kind = "null" -> "null"
      [] r.val = TRANSIENT_CODE -> "transient"
      [] OTHER -> "other"

\* if (supportCondition) on the value fetchSupportConditionWithRetry returned.
TruthyAlways(r) == TRUE
Truthy(r) == r.kind = "value"

\* One attempt of fetchSupportCondition settles inside
\* fetchSupportConditionWithRetry(serviceId, retryCount).
CondFetchReturns(reply) ==
    /\ pc = "condFetch"
    /\ LET r == fetchSupportCondition(reply, loaded[idx].serviceId)
       IN  /\ errs' = Append(errs, LogOf(r))
           /\ CASE r.kind \in {"value", "null"} ->
                     /\ result' = r
                     /\ UNCHANGED waits
                     /\ IF Truthy(r)
                        THEN /\ pc' = "condSave"
                             /\ UNCHANGED outcome
                        ELSE /\ pc' = "condDelay"
                             /\ outcome' = Mark(outcome, idx, "none")
                [] OTHER ->
                     IF CanRetry(retryCount, r.val)
                     THEN /\ pc' = "condBackoff"
                          /\ waits' = Append(waits, Backoff(retryCount))
                          /\ UNCHANGED <<result, outcome>>
                     ELSE /\ result' = r
                          /\ pc' = "condCaught"
                          /\ outcome' = Mark(outcome, idx, "failed")
                          /\ UNCHANGED waits
    /\ UNCHANGED <<source, store, tasks, w1vars, loaded, idx, retryCount,
                   summary, keywords, pagesFetched, submitted, abortCause,
                   prevCompleted, snap>>

\* The backoff delay ends: the recursive call with retryCount + 1.
CondBackoffDoneAfresh ==
    /\ pc = "condBackoff"
    /\ retryCount' = 0 /\ errs' = <<>> /\ waits' = <<>>
    /\ pc' = "condFetch"
    /\ UNCHANGED <<source, store, tasks, w1vars, loaded, idx, result,
                   summary, keywords, pagesFetched, submitted, abortCause,
                   outcome, prevCompleted, snap>>
CondBackoffDone ==
    /\ pc = "condBackoff"
    /\ retryCount' = retryCount + 1
    /\ pc' = "condFetch"
    /\ UNCHANGED <<source, store, tasks, w1vars, loaded, idx, result,
                   summary, keywords, histvars>>

\* subsidy.supportCondition = extract(...); subsidy.save() succeeds.
CondSaveOk ==
    /\ pc = "condSave"
    /\ store' = [store EXCEPT
                   ![idx].supportCondition = extractSupportConditions(result)]
    /\ outcome' = Mark(outcome, idx, "updated")
    /\ pc' = "condDelay"
    /\ UNCHANGED <<source, tasks, w1vars, w23vars, pagesFetched, submitted,
                   abortCause, errs, waits, prevCompleted, snap>>

CondSaveFail ==
    /\ pc = "condSave"
    /\ outcome' = Mark(outcome, idx, "failed")
    /\ pc' = "condCaught"
    /\ UNCHANGED <<source, store, tasks, w1vars, w23vars, pagesFetched,
                   submitted, abortCause, errs, waits, prevCompleted, snap>>

\* The loop moves to the next document, or ends and updateAllSummaries
\* issues its find({}).
CondNext ==
    /\ IF idx < Len(loaded)
       THEN pc' = "condFetch" /\ idx' = idx + 1
       ELSE pc' = "sumLoad" /\ idx' = idx
    /\ retryCount' = 0 /\ result' = Null /\ errs' = <<>> /\ waits' = <<>>
    /\ UNCHANGED <<source, store, tasks, w1vars, loaded, summary, keywords,
                   pagesFetched, submitted, abortCause, outcome, prevCompleted, snap>>

\* delay(DELAY_MS) at the end of the try block ends.
CondDelayDone ==
    /\ pc = "condDelay"
    /\ CondNext

\* The per-record catch: log and continue.
CondCaughtRethrow ==
    /\ pc = "condCaught"
    /\ Abort("record")
    /\ UNCHANGED <<source, store, tasks, w1vars, w23vars, pagesFetched,
                   submitted, outcome, errs, waits>>
CondCaught ==
    /\ pc = "condCaught"
    /\ CondNext

\* --------------------------------------------------- updateAllSummaries
summarizeContent(ok) == IF ok THEN Trim(SummaryReply) ELSE <<>>
extractKeywords(ok) == IF ok THEN MapTrim(SplitComma(KeywordReply, <<>>)) ELSE <<>>

SumLoadOk ==
    /\ pc = "sumLoad"
    /\ loaded' = store
    /\ outcome' = Pending(Len(store))
    /\ IF Len(store) = 0
       THEN pc' = "completed" /\ idx' = 0
       ELSE pc' = "sumSummarize" /\ idx' = 1
    /\ summary' = <<>> /\ keywords' = <<>>
    /\ UNCHANGED <<source, store, tasks, w1vars, retryCount, result,
                   pagesFetched, submitted, abortCause, errs, waits, prevCompleted, snap>>

SumLoadFail ==
    /\ pc = "sumLoad"
    /\ Abort("find")
    /\ UNCHANGED <<source, store, tasks, w1vars, w23vars, pagesFetched,
                   submitted, outcome, errs, waits>>

\* summarizeContent settles: the reply trimmed, or "" when the call failed.
SumSummarizeThrows(ok) ==
    /\ pc = "sumSummarize"
    /\ IF ok
       THEN /\ summary' = Trim(SummaryReply)
            /\ pc' = "sumKeywords"
            /\ UNCHANGED outcome
       ELSE /\ summary' = <<>>
            /\ pc' = "sumCaught"
            /\ outcome' = Mark(outcome, idx, "failed")
    /\ UNCHANGED <<source, store, tasks, w1vars, loaded, idx, retryCount,
                   result, keywords, pagesFetched, submitted, abortCause, errs,
                   waits, prevCompleted, snap>>
SumSummarize(ok) ==
    /\ pc = "sumSummarize"
    /\ summary' = summarizeContent(ok)
    /\ pc' = "sumKeywords"
    /\ UNCHANGED <<source, store, tasks, w1vars, loaded, idx, retryCount,
                   result, keywords, histvars>>

\* extractKeywords settles; the fields are assigned and save() is issued.
SumKeywords(ok) ==
    /\ pc = "sumKeywords"
    /\ keywords' = extractKeywords(ok)
    /\ pc' = "sumSave"
    /\ UNCHANGED <<source, store, tasks, w1vars, loaded, idx, retryCount,
                   result, summary, histvars>>

\* subsidy.summary and subsidy.keywords are assigned; subsidy.save() succeeds.
SumSaveOkClobber ==
    /\ pc = "sumSave"
    /\ store' = [store EXCEPT ![idx].summary = summary, ![idx].keywords = keywords,
                              ![idx].supportCondition = <<>>]
    /\ outcome' = Mark(outcome, idx, "updated")
    /\ pc' = "sumDelay"
    /\ UNCHANGED <<source, tasks, w1vars, w23vars, pagesFetched, submitted,
                   abortCause, errs, waits, prevCompleted, snap>>
SumSaveOk ==
    /\ pc = "sumSave"
    /\ store' = [store EXCEPT ![idx].summary = summary, ![idx].keywords = keywords]
    /\ outcome' = Mark(outcome, idx, "updated")
    /\ pc' = "sumDelay"
    /\ UNCHANGED <<source, tasks, w1vars, w23vars, pagesFetched, submitted,
                   abortCause, errs, waits, prevCompleted, snap>>

SumSaveFail ==
    /\ pc = "sumSave"
    /\ outcome' = Mark(outcome, idx, "failed")
    /\ pc' = "sumCaught"
    /\ summary' = <<>> /\ keywords' = <<>>
    /\ UNCHANGED <<source, store, tasks, w1vars, loaded, idx, retryCount, result,
                   pagesFetched, submitted, abortCause, errs, waits,
                   prevCompleted, snap>>

\* The loop moves to the next document, or ends and processAllData returns.
SumNext ==
    /\ IF idx < Len(loaded)
       THEN pc' = "sumSummarize" /\ idx' = idx + 1
       ELSE pc' = "completed" /\ idx' = idx
    /\ summary' = <<>> /\ keywords' = <<>>
    /\ UNCHANGED <<source, store, tasks, w1vars, loaded, retryCount, result,
                   histvars>>

SumDelayDone ==
    /\ pc = "sumDelay"
    /\ SumNext

SumCaughtRethrow ==
    /\ pc = "sumCaught"
    /\ Abort("record")
    /\ UNCHANGED <<source, store, tasks, w1vars, w23vars, pagesFetched,
                   submitted, outcome, errs, waits>>
SumCaught ==
    /\ pc = "sumCaught"
    /\ SumNext

\* ------------------------------------------------ searchSubsidiesByVector
\* Math.ceil(a / b) for a >= 0 and b >= 1.
CeilDiv(a, b) == IF a % b = 0 THEN a \div b ELSE (a \div b) + 1

\* skip = (page - 1) * limit
SkipOfPage(p, l) == p * l
SkipOf(p, l) == (p - 1) * l

\* $vectorSearch: the indexes of the documents of the collection by
\* descending score, cut to the candidate pool.
VectorSearch(st, sc) ==
    LET above(k) == Cardinality({j \in 1..Len(st) : sc[j] > sc[k]})
        byScore == [r \in 1..Len(st) |->
                       CHOOSE k \in 1..Len(st) : above(k) = r - 1]
    IN  SubSeq(byScore, 1, Min(numCandidates, Len(st)))

\* $project: the listed fields of document k, with its score.
Project(st, sc, k) ==
    [serviceId |-> st[k].serviceId, serviceName |-> st[k].serviceName,
     supportDetails |-> st[k].supportDetails, keywords |-> st[k].keywords,
     summary |-> st[k].summary, score |-> sc[k]]

\* { $skip: n } and { $limit: n } over the stream of an aggregation.
SkipStage(s, n) == IF n >= Len(s) THEN <<>> ELSE SubSeq(s, n + 1, Len(s))
LimitStage(s, n) == SubSeq(s, 1, Min(n, Len(s)))

\* collection.aggregate(pipeline).toArray()
Aggregate(st, sc, skip, limit) ==
    LET found == VectorSearch(st, sc)
        projected == [r \in 1..Len(found) |-> Project(st, sc, found[r])]
    IN  LimitStage(SkipStage(projected, skip), limit)

\* The call settles with the page of results and its pagination record.
SearchOk(p, l) ==
    /\ pc = "idle"
    /\ LET results == Aggregate(store, scores, SkipOf(p, l), l)
           totalCnt == Len(store)
           totalPages == CeilDiv(totalCnt, l)
       IN  searchOut' =
               [kind |-> "ok", page |-> p, limit |-> l, results |-> results,
                pagination |->
                    [currentPage |-> p, totalPages |-> totalPages,
                     totalCount |-> totalCnt, hasNextPage |-> p < totalPages,
                     hasPreviousPage |-> p > 1]]
    /\ UNCHANGED <<source, store, pc, tasks, w1vars, w23vars, stageLog,
                   lateInserts, histvars, scores>>

\* getEmbedding, aggregate or countDocuments throws; the catch rethrows.
SearchFail ==
    /\ pc = "idle"
    /\ searchOut' = [kind |-> "throw"]
    /\ UNCHANGED <<source, store, pc, tasks, w1vars, w23vars, stageLog,
                   lateInserts, histvars, scores>>

\* ---------------------------------------------------------- specification
\* stageLog records each entry of processAllData into a stage; lateInserts
\* each document that save() adds once processAllData has rethrown.
Observe ==
    /\ stageLog' =
          IF pc' = "clear" /\ pc # "clear" THEN <<"Clear">>
          ELSE IF StageOf(pc') # StageOf(pc) /\ StageOf(pc') # "none"
               THEN Append(stageLog, StageOf(pc'))
               ELSE stageLog
    /\ lateInserts' =
          IF pc' = "clear" THEN {}
          ELSE IF pc = "aborted" /\ Len(store') > Len(store)
               THEN lateInserts \cup
                    ({store'[k].serviceId : k \in 1..Len(store')} \
                     {store[k].serviceId : k \in 1..Len(store)})
               ELSE lateInserts

Step ==
    \/ StartRun
    \/ ClearOk
    \/ ClearFail
    \/ ProbeOk
    \/ ProbeFail
    \/ PageOk
    \/ PageFail
    \/ \E t \in tasks : ItemEmbedOk(t)
    \/ \E t \in tasks : ItemEmbedFail(t)
    \/ \E t \in tasks : ItemSaveOk(t)
    \/ \E t \in tasks : ItemSaveFail(t)
    \/ BatchDelayDone
    \/ CondLoadOk
    \/ CondLoadFail
    \/ \E reply \in Replies : CondFetchReturns(reply)
    \/ CondBackoffDone
    \/ CondSaveOk
    \/ CondSaveFail
    \/ CondDelayDone
    \/ CondCaught
    \/ SumLoadOk
    \/ SumLoadFail
    \/ \E ok \in BOOLEAN : SumSummarize(ok)
    \/ \E ok \in BOOLEAN : SumKeywords(ok)
    \/ SumSaveOk
    \/ SumSaveFail
    \/ SumDelayDone
    \/ SumCaught

Next == Step /\ Observe /\ UNCHANGED <<searchvars, extractvars>>

Spec == Init /\ [][Next]_vars

\* A step of the calls already made: an awaited call or delay settles. Every
\* external call and every delay eventually returns or fails; when
\* processAllData is called again is up to the caller.
Settle == Next /\ pc' # "clear"

FairSpec == Spec /\ WF_vars(Settle)

\* The read path over a collection that an ingestion has filled: any size up
\* to MaxSource, any strict ranking of its documents by the query.
Rankings(n) ==
    {f \in [1..n -> 1..n] : \A a, b \in 1..n : a # b => f[a] # f[b]}

\* No run of processAllData is under way and none has been.
NoRun ==
    /\ pc = "idle"
    /\ tasks = {}
    /\ totalCount = 0 /\ page = 0 /\ subsidies = <<>> /\ i = 0
    /\ loaded = <<>> /\ idx = 0 /\ retryCount = 0 /\ result = Null
    /\ summary = <<>> /\ keywords = <<>>
    /\ stageLog = <<>> /\ lateInserts = {}
    /\ pagesFetched = <<>> /\ submitted = <<>> /\ abortCause = "none"
    /\ outcome = <<>> /\ errs = <<>> /\ waits = <<>>
    /\ prevCompleted = FALSE /\ snap = <<>>

SearchInit ==
    /\ source = <<>>
    /\ \E n \in 0..MaxSource :
          /\ store = [k \in 1..n |->
                         NewDoc(SrcRec(k), Embedding(SrcRec(k).serviceName), TRUE)]
          /\ scores \in Rankings(n)
    /\ searchOut = [kind |-> "none"]
    /\ payloadIn = NoPayload /\ extracted = NotCalled
    /\ NoRun

SearchStep ==
    \/ \E p \in 1..MaxPage, l \in 1..MaxLimit : SearchOk(p, l)
    \/ SearchFail

SearchNext == SearchStep /\ UNCHANGED extractvars

SearchSpec == SearchInit /\ [][SearchNext]_vars

\* extractSupportConditions over every payload of at most MaxKeys keys: an
\* object lists each key once, in the order Object.keys gives them.
PayloadKeys ==
    {<<"J", "A", "1">>, <<"J", "A">>, <<"J", "B", "1">>, <<"A", "J">>, <<"J">>}
PayloadVals == {"x", "y", "", Null}
RECURSIVE PayloadsUpTo(_)
PayloadsUpTo(n) ==
    IF n = 0 THEN {<<>>}
    ELSE LET shorter == PayloadsUpTo(n - 1)
         IN  shorter \cup
             {Append(p, [key |-> k, val |-> v]) :
                 p \in {q \in shorter : Len(q) = n - 1},
                 k \in PayloadKeys, v \in PayloadVals}
Payloads ==
    {p \in PayloadsUpTo(MaxKeys) :
        \A a, b \in 1..Len(p) : a # b => p[a].key # p[b].key}

ExtractInit ==
    /\ source = <<>> /\ store = <<>>
    /\ scores = <<>> /\ searchOut = [kind |-> "none"]
    /\ payloadIn \in [kind : {"value"}, val : Payloads] \cup {NoPayload}
    /\ extracted = NotCalled
    /\ NoRun

\* One call of extractSupportConditions returns.
Extract ==
    /\ ~extracted.done
    /\ extracted' = [done |-> TRUE, val |-> extractSupportConditions(payloadIn)]
    /\ UNCHANGED <<source, store, pc, tasks, w1vars, w23vars, stageLog,
                   lateInserts, histvars, searchvars, payloadIn>>

ExtractNext == Extract

ExtractSpec == ExtractInit /\ [][ExtractNext]_vars

\* ------------------------------------------------------------- properties
IsPrefix(s, t) == Len(s) <= Len(t) /\ \A k \in 1..Len(s) : s[k] = t[k]
Last(s) == s[Len(s)]
PerRecordPcs ==
    {"condFetch", "condBackoff", "condSave", "condDelay", "condCaught",
     "sumSummarize", "sumKeywords", "sumSave", "sumDelay", "sumCaught"}
Failed(t) == t.st \in {"embedFailed", "saveFailed"}
\* The batch dispatched last by fetchAndStoreBasicInfo.
CurrentBatch == Ids(Slice(subsidies, i, i + BATCH_SIZE))
\* The least k with k * perPage >= n.
LeastCover(n) ==
    CHOOSE k \in 0..n : k * perPage >= n /\ \A j \in 0..(k - 1) : j * perPage < n

\* C1: in every run the stages are entered in the order Clear, FetchBasics,
\* UpdateConditions, UpdateSummaries, each at most once; a stage is entered
\* only when the one before it is over (the store was emptied before the
\* probe, no saveBasicSubsidyInfo call of the run is still running once
\* UpdateConditions has begun, every loaded record was handled before
\* UpdateSummaries begins); a completed run went through all four.
C1_StageOrder ==
    /\ IsPrefix(stageLog, StageOrder)
    /\ StageOf(pc) # "none" => stageLog # <<>> /\ Last(stageLog) = StageOf(pc)
    /\ pc = "completed" => stageLog = StageOrder
    /\ pc = "probe" => store = <<>>
    /\ (StageOf(pc) \in {"UpdateConditions", "UpdateSummaries"} \/ pc = "completed")
          => \A t \in tasks : ~InFlight(t)
    /\ pc = "sumLoad" => \A k \in 1..Len(outcome) : outcome[k] # "pending"
C1_Witness ==
    /\ pc = "completed" /\ Len(store) = MaxSource
    /\ Len(pagesFetched) >= 2

\* C2: at the end of each of the two per-record passes every loaded record
\* has been handled; a record whose fetch or save failed is unchanged in the
\* store, a record whose calls succeeded carries its update, whatever
\* happened to the records before it; and a run that is past the load of a
\* pass is never aborted.
C2_BatchIsolation ==
    /\ pc = "sumLoad" =>
          \A k \in 1..Len(loaded) :
             /\ outcome[k] # "pending"
             /\ outcome[k] \in {"failed", "none"} => store[k] = loaded[k]
             /\ outcome[k] = "updated" =>
                   store[k] = [loaded[k] EXCEPT !.supportCondition =
                       extractSupportConditions(
                           fetchSupportCondition("data", loaded[k].serviceId))]
    /\ pc = "completed" =>
          \A k \in 1..Len(loaded) :
             /\ outcome[k] \in {"failed", "updated"}
             /\ outcome[k] = "failed" => store[k] = loaded[k]
             /\ outcome[k] = "updated" =>
                   \E a, b \in BOOLEAN :
                      store[k] = [loaded[k] EXCEPT !.summary = summarizeContent(a),
                                                   !.keywords = extractKeywords(b)]
    /\ pc = "aborted" /\ stageLog # <<>>
          /\ Last(stageLog) \in {"UpdateConditions", "UpdateSummaries"}
          => abortCause = "find"
C2_Witness ==
    /\ pc = "sumLoad" /\ Len(loaded) >= 3
    /\ outcome[1] = "updated" /\ outcome[2] = "failed" /\ outcome[3] = "updated"
    /\ store[2].supportCondition = <<>> /\ store[3].supportCondition # <<>>

\* C3: a failure of the probe, of a page fetch or of one call of a batch
\* ends the run Aborted at once, in FetchBasics: nothing was dispatched or
\* fetched after the failing call's batch and page, and neither
\* UpdateConditions nor UpdateSummaries was entered.
C3_Wave1FailureAborts ==
    /\ (\E t \in tasks : Failed(t)) => pc = "aborted" /\ abortCause = "item"
    /\ abortCause \in {"probe", "page", "item"} =>
          pc = "aborted" /\ stageLog = <<"Clear", "FetchBasics">>
    /\ abortCause = "probe" => pagesFetched = <<>> /\ submitted = <<>>
    /\ abortCause = "page" =>
          /\ Len(pagesFetched) = page - 1
          /\ Len(submitted) = (page - 1) * perPage
    /\ abortCause = "item" =>
          /\ \E t \in tasks : Failed(t)
          /\ \A t \in tasks : Failed(t) => t.rec.serviceId \in Range(CurrentBatch)
          /\ Last(pagesFetched) = page
          /\ Len(submitted) = (page - 1) * perPage + i + Len(CurrentBatch)
C3_Witness ==
    /\ pc = "aborted" /\ abortCause = "item"
    /\ page = 1 /\ i = 0 /\ Len(source) = MaxSource
    /\ \E t \in tasks : t.st = "embedFailed"

\* C4 as stated: a run ends Aborted only from Clear or FetchBasics.
C4_Original ==
    pc = "aborted" => stageLog \in {<<"Clear">>, <<"Clear", "FetchBasics">>}
\* C4 amended: a run ends Aborted only at the await of Clear, of FetchBasics
\* or of the find({}) that opens UpdateConditions or UpdateSummaries; no
\* per-record await of stage 3 or 4 is ever followed by Aborted.
C4_Amended ==
    [][(pc' = "aborted" /\ pc # "aborted") =>
          /\ pc \in {"clear", "probe", "pageFetch", "batchRun", "condLoad", "sumLoad"}
          /\ pc \notin PerRecordPcs]_vars
C4_Witness ==
    /\ pc = "completed" /\ Len(loaded) >= 2
    /\ \E k \in 1..Len(loaded) : outcome[k] = "failed"
    /\ \E k \in 1..Len(loaded) :
          store[k].supportCondition = <<>> /\ store[k].summary = <<>>

TransientsThenOk(e) ==
    /\ e # <<>> /\ Last(e) = "ok"
    /\ \A k \in 1..(Len(e) - 1) : e[k] = "transient"
\* C5 as stated: up to MAX_RETRIES transient failures and then a success
\* give the successful result within MAX_RETRIES attempts.
C5_Original ==
    (TransientsThenOk(errs) /\ Len(errs) - 1 <= MAX_RETRIES) =>
        result.kind = "value" /\ Len(errs) <= MAX_RETRIES
\* C5 amended: after f <= MAX_RETRIES transient failures the call is made
\* again, and when it then succeeds the successful payload is returned, at
\* attempt f + 1, so within MAX_RETRIES + 1 attempts; the call gives up on a
\* transient failure only at attempt MAX_RETRIES + 1.
C5_Amended ==
    /\ \A k \in 1..(Len(errs) - 1) : errs[k] = "transient"
    /\ Len(errs) <= MAX_RETRIES + 1
    /\ (errs # <<>> /\ Last(errs) = "ok") =>
          /\ pc \in {"condSave", "condDelay", "condCaught"}
          /\ result = [kind |-> "value", val |-> Payload(loaded[idx].serviceId)]
          /\ Len(errs) = retryCount + 1
    /\ (errs # <<>> /\ Last(errs) = "transient" /\ pc \notin {"condBackoff", "condFetch"}) =>
          Len(errs) = MAX_RETRIES + 1 /\ pc = "condCaught"
C5_Witness ==
    /\ pc = "condSave"
    /\ errs = <<"transient", "transient", "transient", "ok">>
    /\ result.kind = "value"

\* C6: an error without the transient code ends the retrying call at the
\* attempt where it occurs: it is the last attempt, the call throws that
\* error into the per-record catch, and no backoff follows it (the delays
\* incurred are those of the transient failures before it; none when it is
\* the first attempt).
C6_NonTransientNotRetried ==
    \A k \in 1..Len(errs) :
        errs[k] = "other" =>
            /\ k = Len(errs)
            /\ pc = "condCaught"
            /\ result = [kind |-> "throw", val |-> OTHER_CODE]
            /\ Len(waits) = k - 1
            /\ retryCount = k - 1
            /\ outcome[idx] = "failed"
C6_Witness ==
    /\ pc = "condCaught" /\ errs = <<"other">> /\ waits = <<>>

\* C7: the pages requested are 1, 2, ... in order, each once, never more
\* than the least k with k * perPage >= totalCount; when FetchBasics ends
\* without failure exactly that many were requested and the serviceIds
\* handed to saveBasicSubsidyInfo are those of the source, each once.
C7_Pagination ==
    /\ pagesFetched = [k \in 1..Len(pagesFetched) |-> k]
    /\ pc \notin {"idle", "clear", "probe"} /\ abortCause # "probe" /\ abortCause # "clear"
          => Len(pagesFetched) <= LeastCover(totalCount)
    /\ "UpdateConditions" \in Range(stageLog) =>
          /\ totalCount = Len(source)
          /\ Len(pagesFetched) = LeastCover(totalCount)
          /\ Range(submitted) = {source[k].serviceId : k \in 1..Len(source)}
          /\ Len(submitted) = Len(source)
          /\ \A a, b \in 1..Len(submitted) : submitted[a] = submitted[b] => a = b
C7_Witness ==
    /\ pc = "condLoad" /\ Len(pagesFetched) = 2
    /\ Len(source) % perPage # 0 /\ Len(submitted) = Len(source)

\* C8: once the probe has reported totalCount = 0, no page is requested, no
\* saveBasicSubsidyInfo call is made, the store is and stays empty, the run
\* goes straight to the two find({}) loads and ends Completed; nothing in
\* the run raises an error unless one of these two loads itself is refused
\* by the store.
C8_EmptySource ==
    (/\ Len(source) = 0
     /\ pc \notin {"idle", "clear", "probe"}
     /\ abortCause \notin {"clear", "probe"}) =>
        /\ totalCount = 0
        /\ pagesFetched = <<>> /\ submitted = <<>> /\ tasks = {}
        /\ store = <<>>
        /\ pc \in {"condLoad", "sumLoad", "completed", "aborted"}
        /\ pc = "aborted" => abortCause = "find"
        /\ pc = "completed" => stageLog = StageOrder /\ abortCause = "none"
C8_Witness ==
    pc = "completed" /\ Len(source) = 0 /\ store = <<>> /\ ~prevCompleted

\* C9: when a completed run follows a completed run over the same source,
\* its store holds the same (serviceId, basic fields) with the same
\* multiplicities as the store of the earlier run, every document is one
\* the later run inserted, and no serviceId is stored twice.
C9_Idempotent ==
    (pc = "completed" /\ prevCompleted) =>
        /\ BasicBag(store) = snap
        /\ \A k \in 1..Len(store) : store[k].fresh
        /\ \A b \in DOMAIN BasicBag(store) : BasicBag(store)[b] = 1
        /\ \A a, b \in 1..Len(store) :
              store[a].serviceId = store[b].serviceId => a = b
C9_Witness ==
    pc = "completed" /\ prevCompleted /\ Len(store) >= 2

\* C10: once Clear has completed in a run, every stored document was built
\* by saveBasicSubsidyInfo of this run from a source record, after its
\* embedding arrived: it has the record's basic fields and the embedding of
\* its name, and no call whose embedding failed has a document in the store.
C10_StoreInvariant ==
    "FetchBasics" \in Range(stageLog) =>
        \A k \in 1..Len(store) :
            /\ store[k].vectorEmbedding # NoVec
            /\ store[k].vectorEmbedding = Embedding(store[k].serviceName)
            /\ \E n \in 1..Len(source) : BasicOf(store[k]) = BasicOf(source[n])
            /\ store[k].fresh
            /\ ~\E t \in tasks :
                  /\ t.st = "embedFailed"
                  /\ t.rec.serviceId = store[k].serviceId
C10_Witness ==
    /\ pc = "aborted" /\ Len(store) >= 1
    /\ \E t \in tasks : t.st = "embedFailed"
    /\ \E t \in tasks : t.st = "saved"

\* The rank of stored document k by descending score, 1 the most similar.
RankOf(k) == 1 + Cardinality({j \in 1..Len(store) : scores[j] > scores[k]})

\* C11: for every page p >= 1 and limit l >= 1 a settled search returns the
\* candidates ranked (p-1)*l+1 through p*l by descending similarity, as far
\* as the pool of numCandidates holds them: never more than l results, none
\* ranked beyond the pool, and hasPreviousPage is true exactly when p > 1.
C11_SearchPagination ==
    searchOut.kind = "ok" =>
        LET p == searchOut.page
            l == searchOut.limit
            res == searchOut.results
            lo == (p - 1) * l + 1
            pool == Min(numCandidates, Len(store))
        IN  /\ Len(res) <= l
            /\ Len(res) = Cardinality({r \in lo..(p * l) : r <= pool})
            /\ \A j \in 1..Len(res) :
                  \E k \in 1..Len(store) :
                     /\ RankOf(k) = lo + j - 1
                     /\ RankOf(k) <= numCandidates
                     /\ res[j].serviceId = store[k].serviceId
                     /\ res[j].score = scores[k]
            /\ \A j \in 1..Len(res) : \A h \in 1..Len(res) :
                  j < h => res[j].score > res[h].score
            /\ searchOut.pagination.hasPreviousPage <=> (p > 1)

\* The second page of a collection larger than the pool: part of the page
\* lies within the pool, part beyond it.
C11_Witness ==
    /\ searchOut.kind = "ok"
    /\ searchOut.page = 2 /\ searchOut.limit = 2
    /\ Len(store) > numCandidates
    /\ Len(searchOut.results) = numCandidates - 2
    /\ searchOut.pagination.hasPreviousPage

\* C12: extractSupportConditions returns exactly the values of the keys that
\* start with "JA", in the payload's key order, null or absent values dropped
\* and other keys ignored; the empty sequence for a null or absent payload;
\* {JA1: "x", JA2: null, JB1: "y"} gives <<"x">>.
C12_ExtractJA ==
    extracted.done =>
        IF payloadIn.kind = "null" THEN extracted.val = <<>>
        ELSE LET p == payloadIn.val
                 out == extracted.val
                 keep == {k \in 1..Len(p) :
                            /\ Len(p[k].key) >= 2
                            /\ SubSeq(p[k].key, 1, 2) = <<"J", "A">>
                            /\ p[k].val # Null}
             IN  /\ Len(out) = Cardinality(keep)
                 /\ \A k \in keep : out[Cardinality({j \in keep : j <= k})] = p[k].val
                 /\ p = Payload(1) => out = <<"x">>

\* The payload {JA1: "x", JA: null, JB1: "y"} has been extracted, and so has
\* the absent payload.
C12_Witness ==
    /\ extracted.done
    /\ payloadIn.kind = "value"
    /\ payloadIn.val = << [key |-> <<"J", "A", "1">>, val |-> "x"],
                          [key |-> <<"J", "A">>, val |-> Null],
                          [key |-> <<"J", "B", "1">>, val |-> "y"] >>
    /\ extracted.val = <<"x">>

\* C13: in the loops of Waves 2 and 3 the first outbound call made for the
\* next record is issued only when the delay of DELAY_MS that follows the
\* record before it has elapsed, whatever that record's outcome (updated, no
\* condition found, or failed and skipped).
C13_DelayBetweenRecords ==
    [][(pc' \in {"condFetch", "sumSummarize"} /\ idx >= 1 /\ idx' = idx + 1)
          => pc \in {"condDelay", "sumDelay"}]_vars

\* The saveBasicSubsidyInfo calls that have not settled.
Running(ts) == {t \in ts : InFlight(t)}

\* C14: within a page the records are cut into consecutive batches of at
\* most BATCH_SIZE in array order; a batch is started only when every item
\* of the batch before it has completed and the delay after that batch has
\* elapsed; at most BATCH_SIZE embed-and-persist calls are in flight at any
\* time, and none while the single-record loops of Waves 2/3 run.
C14_BatchBarrier ==
    [][/\ Cardinality(Running(tasks')) <= BATCH_SIZE
       /\ StageOf(pc') \in {"UpdateConditions", "UpdateSummaries"}
             => Running(tasks') = {}
       /\ (pc' = "pageFetch" /\ page' >= 2) => pc = "batchDelay"
       /\ (submitted' # submitted /\ pc' # "clear") =>
             /\ pc \in {"pageFetch", "batchDelay"}
             /\ i' > 0 => pc = "batchDelay"
             /\ Running(tasks) = {}
             /\ i' = Len(submitted) - (page' - 1) * perPage
             /\ \E n \in 1..BATCH_SIZE :
                   /\ n = BATCH_SIZE \/ i' + n = Len(subsidies')
                   /\ submitted' =
                         submitted \o Ids(SubSeq(subsidies', i' + 1, i' + n))
                   /\ {t.rec.serviceId : t \in Running(tasks')} =
                         {subsidies'[k].serviceId : k \in (i' + 1)..(i' + n)}
                   /\ Cardinality(Running(tasks')) = n]_vars

\* The second batch of a page is running, every record of the first stored.
C14_Witness ==
    /\ pc = "batchRun"
    /\ i = BATCH_SIZE
    /\ Running(tasks) # {}
    /\ \A k \in 1..BATCH_SIZE : \E j \in 1..Len(store) :
          store[j].fresh /\ store[j].serviceId = subsidies[k].serviceId

\* C15: the k-th retry of a condition fetch (k = 1, 2, 3) is preceded by a
\* delay of exactly k * DELAY_MS; a record gets at most MAX_RETRIES retries;
\* when the transient code is still returned after the last retry the error
\* reaches the loop of Wave 2, where the record is logged and skipped: no
\* further attempt, no store write, the run goes on.
C15_BackoffSchedule ==
    pc \in {"condFetch", "condBackoff", "condSave", "condDelay", "condCaught"} =>
        /\ retryCount <= MAX_RETRIES
        /\ Len(waits) <= MAX_RETRIES
        /\ \A k \in 1..Len(waits) : waits[k] = k * DELAY_MS
        /\ Len(waits) = IF pc = "condBackoff" THEN retryCount + 1 ELSE retryCount
        /\ \A k \in 1..Len(waits) : errs[k] = "transient"
        /\ Len(errs) = IF pc \in {"condFetch", "condBackoff"} THEN Len(waits)
                       ELSE Len(waits) + 1
        /\ (Len(errs) = MAX_RETRIES + 1 /\ Last(errs) = "transient") =>
              /\ pc = "condCaught"
              /\ outcome[idx] = "failed"
              /\ store[idx] = loaded[idx]
              /\ abortCause = "none"

\* Every retry was used and the transient code came back once more.
C15_Witness ==
    /\ pc = "condCaught"
    /\ waits = <<DELAY_MS, 2 * DELAY_MS, 3 * DELAY_MS>>
    /\ errs = <<"transient", "transient", "transient", "transient">>
    /\ idx < Len(loaded)

\* C16: in Wave 3 a failed summarize or keyword call is not an error of the
\* record: summarizeContent gives the empty summary and extractKeywords the
\* empty list, the per-record catch is entered from a failed save only, the
\* record is persisted with whatever came back, empty or not, and the pass
\* goes on to the next record.
C16_TextFailuresNotFatal ==
    [][/\ pc = "sumSummarize" =>
             /\ pc' \in {"sumSummarize", "sumKeywords"}
             /\ pc' = "sumKeywords" => summary' \in {Trim(SummaryReply), <<>>}
             /\ store' = store
       /\ pc = "sumKeywords" =>
             /\ pc' \in {"sumKeywords", "sumSave"}
             /\ pc' = "sumSave" =>
                   keywords' \in {MapTrim(SplitComma(KeywordReply, <<>>)), <<>>}
             /\ store' = store /\ summary' = summary
       /\ (pc' = "sumCaught" /\ pc # "sumCaught") => pc = "sumSave"
       /\ (pc = "sumSave" /\ pc' = "sumDelay") =>
             /\ store'[idx].summary = summary
             /\ store'[idx].keywords = keywords
             /\ outcome'[idx] = "updated"
       /\ pc \in {"sumSummarize", "sumKeywords", "sumSave", "sumDelay", "sumCaught"}
             => pc' # "aborted"]_vars

\* A pass ended after a record was persisted with the empty summary and the
\* empty keyword list, and a later record with both filled.
C16_Witness ==
    /\ pc = "completed"
    /\ Len(store) >= 2
    /\ outcome = [k \in 1..Len(store) |-> "updated"]
    /\ store[1].summary = <<>> /\ store[1].keywords = <<>>
    /\ store[2].summary # <<>> /\ store[2].keywords # <<>>

\* C17: when the condition lookup succeeds but yields no usable result (an
\* empty or malformed reply), fetchSupportCondition returns none: nothing is
\* thrown, no retry or backoff follows, updateAllSupportConditions writes
\* nothing for the record, whose stored fields stay as loaded, and goes on
\* through the delay to the next record.
C17_MissingConditionNoWrite ==
    (pc \in {"condFetch", "condBackoff", "condSave", "condDelay", "condCaught"}
       /\ errs # <<>> /\ Last(errs) = "null") =>
        /\ pc = "condDelay"
        /\ result.kind = "null"
        /\ outcome[idx] = "none"
        /\ store[idx] = loaded[idx]
        /\ Len(waits) = Len(errs) - 1
        /\ abortCause = "none"

\* The first attempt for a record that is not the last came back empty.
C17_Witness ==
    /\ pc = "condDelay"
    /\ errs = <<"null">>
    /\ outcome[idx] = "none"
    /\ idx < Len(loaded)

\* The fields of a stored document that saveBasicSubsidyInfo sets for good.
Identity(d) ==
    <<d.serviceId, d.serviceName, d.supportDetails, d.vectorEmbedding, d.fresh>>

\* C18: once FetchBasics is over, no step of the run adds or removes a
\* stored record or changes a record's basic fields or vectorEmbedding;
\* UpdateConditions changes supportCondition only, UpdateSummaries changes
\* summary and keywords only, so it never overwrites a supportCondition
\* that UpdateConditions wrote.
C18_WaveFrame ==
    [][(StageOf(pc) \in {"UpdateConditions", "UpdateSummaries"} /\ pc' # "clear") =>
          /\ Len(store') = Len(store)
          /\ \A k \in 1..Len(store) :
                /\ Identity(store'[k]) = Identity(store[k])
                /\ StageOf(pc) = "UpdateConditions" =>
                      /\ store'[k].summary = store[k].summary
                      /\ store'[k].keywords = store[k].keywords
                /\ StageOf(pc) = "UpdateSummaries" =>
                      store'[k].supportCondition = store[k].supportCondition]_vars

\* UpdateSummaries has written a record whose supportCondition
\* UpdateConditions had written.
C18_Witness ==
    /\ pc = "sumDelay"
    /\ outcome[idx] = "updated"
    /\ store[idx].supportCondition # <<>>
    /\ store[idx].summary # <<>>
    /\ store[idx].vectorEmbedding = Embedding(store[idx].serviceName)

Terminal == {"completed", "aborted"}

\* C19: provided every external call and every delay eventually returns or
\* fails, every run of processAllData eventually reaches Completed or
\* Aborted, whatever the source and the pattern of failures; the retries of
\* a condition fetch do not go on for ever.
C19_Termination == (pc \notin Terminal \cup {"idle"}) ~> (pc \in Terminal)

\* A run over the largest source ended with every record stored, one of
\* them left without conditions.
C19_Witness ==
    /\ pc = "completed"
    /\ Len(source) = MaxSource
    /\ Len(store) = MaxSource
    /\ retryCount = 0
    /\ \E k \in 1..Len(store) : store[k].supportCondition = <<>>

\* C20: when an item of a batch fails, the other items of the batch that
\* were dispatched are not cancelled: each is still running or has settled
\* on its own, and may insert its record after the run is Aborted; what the
\* store gains then, and what it holds at all, are records of the failing
\* batch or of earlier batches: no item of a later batch or page is ever
\* started or inserted.
C20_SiblingsNotCancelled ==
    (pc = "aborted" /\ abortCause = "item") =>
        /\ \A id \in Range(CurrentBatch) : \E t \in tasks : t.rec.serviceId = id
        /\ \A t \in tasks : t.rec.serviceId \in Range(CurrentBatch)
        /\ lateInserts \subseteq Range(CurrentBatch)
        /\ Len(submitted) = (page - 1) * perPage + i + Len(CurrentBatch)
        /\ \A k \in 1..Len(store) :
              /\ store[k].fresh
              /\ store[k].serviceId \in Range(submitted)
        /\ \A id \in Range(submitted) \ Range(CurrentBatch) :
              \E k \in 1..Len(store) : store[k].serviceId = id

\* A record of the failing batch was inserted after the run had aborted,
\* and every call of the batch has settled.
C20_Witness ==
    /\ pc = "aborted" /\ abortCause = "item"
    /\ lateInserts # {}
    /\ \A t \in tasks : ~InFlight(t)
    /\ \E t \in tasks : Failed(t)
    /\ \E k \in 1..Len(store) : store[k].serviceId \in lateInserts
====
